---- MODULE Spec2Model ----
(***************************************************************************)
(* A model of mitmproxy/net/tls.py: the TLS context factories              *)
(* (_create_ssl_context, create_client_context, create_server_context),    *)
(* the callbacks they install (certificate verification, ALPN selection)   *)
(* and the MasterSecretLogger key-log sink.                                *)
(*                                                                         *)
(* Conventions.  A Python str or bytes that names a host is a sequence of  *)
(* its dot-separated labels ("example.com" is <<"example", "com">>, the    *)
(* empty string is <<"">>); Python's None is the empty sequence.  An ALPN  *)
(* protocol identifier is a non-empty sequence of byte values.             *)
(***************************************************************************)
EXTENDS Integers, Sequences, FiniteSets, TLC

\* ------------------------------------------------------------------ bounds

\* certificates in the longest chain the engine presents
MaxChain == 3
\* protocols in the longest ALPN offer of a client
MaxOffer == 2
\* connections whose handshake events reach the MasterSecretLogger
NumConns == 2
\* close() calls made on the MasterSecretLogger
MaxCloses == 2

\* ----------------------------------------------------- pyOpenSSL constants

VERIFY_NONE == 0
VERIFY_PEER == 1
VERIFY_FAIL_IF_NO_PEER_CERT == 2
SSL_CB_HANDSHAKE_START == 16
SSL_CB_HANDSHAKE_DONE == 32
\* stands for verify=None (the argument left unset)
NoVerify == -1
X509_V_OK == 0
X509_V_ERR_CERT_HAS_EXPIRED == 10
X509_V_ERR_SELF_SIGNED_CERT_IN_CHAIN == 19

None == <<>>
NoExc == "no exception"

\* ------------------------------------------------------------- text model

\* Labels whose characters are all ASCII; the two others carry U+00FC/U+00DC.
AsciiLabels ==
    {"", "example", "EXAMPLE", "com", "other", "a", "*", "no-hostname",
     "xn--bcher-kva"}

IsAsciiLabel(l) == l \in AsciiLabels

\* str.lower() of one label
LowerLabel(l) ==
    CASE l = "EXAMPLE" -> "example"
      [] l = "B{U+00DC}CHER" -> "b{U+00FC}cher"
      [] OTHER -> l

Lower(name) == [i \in DOMAIN name |-> LowerLabel(name[i])]

\* number of '*' characters of one label
StarCount(l) == IF l = "*" THEN 1 ELSE 0

RECURSIVE CountStars(_)
CountStars(name) ==
    IF name = <<>> THEN 0 ELSE StarCount(Head(name)) + CountStars(Tail(name))

\* the punycode of a nameprepped (case-folded) non-ASCII label, with its prefix
ToASCIINonAscii(l) ==
    CASE LowerLabel(l) = "b{U+00FC}cher" -> "xn--bcher-kva"
      [] OTHER -> "xn--?"

\* encodings.idna.ToASCII of one label
ToASCII(l) == IF IsAsciiLabel(l) THEN l ELSE ToASCIINonAscii(l)

\* sni.encode("idna").decode("ascii"): [raised, value].  The empty string
\* encodes to itself; an empty label other than a trailing one is refused.
IdnaEncode(name) ==
    IF name = <<"">> THEN [raised |-> FALSE, value |-> name]
    ELSE IF \E i \in 1..(Len(name) - 1) : name[i] = ""
         THEN [raised |-> TRUE, value |-> None]
    ELSE IF Len(name) = 1 /\ name[1] = ""
         THEN [raised |-> TRUE, value |-> None]
    ELSE [raised |-> FALSE, value |-> [i \in DOMAIN name |-> ToASCII(name[i])]]

\* bytes.decode("ascii", "strict") of a certificate name: raises on a non-ASCII byte
DecodeAsciiRaises(name) == \E i \in DOMAIN name : ~IsAsciiLabel(name[i])

\* ssl._dnsname_match(dn, hostname): "true", "false" or "raise" (CertificateError)
DnsnameMatch(dn, hostname) ==
    IF dn = <<"">> THEN "false"
    ELSE IF CountStars(dn) = 0
         THEN (IF Lower(dn) = Lower(hostname) THEN "true" ELSE "false")
    ELSE IF CountStars(dn) > 1 THEN "raise"
    ELSE IF CountStars(Tail(dn)) > 0 THEN "raise"
    ELSE IF Len(dn) = 1 THEN "raise"
    ELSE IF dn[1] # "*" THEN "raise"
    ELSE IF hostname[1] = "" \/ Len(hostname) = 1 THEN "false"
    ELSE IF Lower(Tail(dn)) = Lower(Tail(hostname)) THEN "true" ELSE "false"

\* the loop of ssl.match_hostname over a list of names: the first match returns,
\* a malformed wildcard met before it raises
RECURSIVE MatchAny(_, _)
MatchAny(names, hostname) ==
    IF names = <<>> THEN "false"
    ELSE LET r == DnsnameMatch(Head(names), hostname)
         IN  IF r = "false" THEN MatchAny(Tail(names), hostname) ELSE r

\* ssl.match_hostname(crt, hostname) for a DNS hostname: "ok" or "CertificateError".
\* crt is [subjectAltName: list of DNS names, subject: list of commonNames];
\* the subject is consulted only when there is no DNS subjectAltName.
MatchHostname(crt, hostname) ==
    LET r == IF crt.subjectAltName # <<>>
             THEN MatchAny(crt.subjectAltName, hostname)
             ELSE MatchAny(crt.subject, hostname)
    IN  IF r = "true" THEN "ok" ELSE "CertificateError"

\* ------------------------------------------------------------------ state

VARIABLES
    log_master_secret,  \* the module-level key-log hook: "None" or "MasterSecretLogger"
    built,              \* the last factory call: its arguments and what it produced
    conn,               \* the connection of the handshake in progress
    hs,                 \* where the engine is in that handshake's chain
    call,               \* the last verify-callback invocation
    negReturned,        \* whether a verify callback returned a negative result on conn
    alpn,               \* the last invocation of the ALPN selection hook
    f,                  \* MasterSecretLogger.f
    lock,               \* the threads holding MasterSecretLogger.lock (none when free)
    pc,                 \* where each thread is inside __call__ or close
    ev,                 \* the (where, ret) event each connection thread was given
    fs,                 \* the file system: directories made, opens, bytes on disk
    closes,             \* close() calls issued so far
    badWrites           \* writes attempted on a closed file object

vars == <<log_master_secret, built, conn, hs, call, negReturned, alpn,
          f, lock, pc, ev, fs, closes, badWrites>>

tlsVars == <<built, conn, hs, call, negReturned, alpn>>
logVars == <<f, lock, pc, ev, fs, closes, badWrites>>

\* --------------------------------------------------- _create_ssl_context

ExcMethod == "TlsException: SSL method is most likely not supported"
ExcTrust == "TlsException: Cannot load trusted certificates"
ExcCipher == "TlsException: SSL cipher specification error"
ExcAlpnFunction == "TlsException: ALPN error: alpn_select_callback must be a function."
ExcAlpnBoth == "TlsException: ALPN error: only define alpn_select (string) OR alpn_select_callback (function)."
ExcNoSni == "TlsException: Cannot validate certificate hostname without SNI"
ExcClientCert == "TlsException: SSL client certificate error"
ExcIdentity == "SSL.Error"

NoContext == [made |-> FALSE]
NoCallback == [name |-> "None", sni |-> None, address |-> None]
NoHook == [kind |-> "None", alpn_select |-> None]

\* the engine: SSL.Context(method) raises ValueError for a method libssl lacks
MethodSupported(method) == method # "SSLv2_METHOD"
\* the engine: load_verify_locations raises SSL.Error for unreadable CA material
TrustLoadable(ca_pemfile, ca_path) == ca_pemfile # "missing.pem"
\* the engine: set_cipher_list raises SSL.Error for a cipher string it cannot parse
CipherListOk(cipher_list) == cipher_list # "bogus"
\* callable(alpn_select_callback)
Callable(cb) == cb = "function"

\* a fresh SSL.Context(method)
NewContext(method) ==
    [made |-> TRUE, method |-> method, options |-> "unset",
     verify |-> NoVerify, verify_callback |-> NoCallback,
     ca_pemfile |-> "None", ca_path |-> "None", mode |-> "unset",
     cipher_list |-> "None", info_callback |-> "None",
     alpn_protos |-> None, alpn_select_callback |-> NoHook,
     privatekey |-> "None", certificate |-> "None", extra_chain |-> 0,
     servername_callback |-> "None", tmp_dh |-> "None"]

Raise(exc, calls) == [exc |-> exc, context |-> NoContext, calls |-> calls]

\* lines 132-133
SetOptions(r, a) ==
    IF a.options # "None"
    THEN [r EXCEPT !.context.options = a.options,
                   !.calls = Append(@, "set_options")]
    ELSE r

\* lines 136-147
SetVerify(r, a) ==
    IF a.verify # NoVerify
    THEN LET pem == IF a.ca_path = "None" /\ a.ca_pemfile = "None"
                    THEN "certifi" ELSE a.ca_pemfile
             calls == r.calls \o <<"set_verify", "load_verify_locations">>
         IN  IF TrustLoadable(pem, a.ca_path)
             THEN [r EXCEPT !.context.verify = a.verify,
                            !.context.verify_callback = a.verify_callback,
                            !.context.ca_pemfile = pem,
                            !.context.ca_path = a.ca_path,
                            !.calls = calls]
             ELSE Raise(ExcTrust, calls)
    ELSE r

\* line 153
SetMode(r) ==
    IF r.exc # NoExc THEN r
    ELSE [r EXCEPT !.context.mode = "SSL_MODE_AUTO_RETRY",
                   !.calls = Append(@, "set_mode")]

\* lines 156-160: an empty cipher string is falsy and skipped
SetCipherList(r, a) ==
    IF r.exc # NoExc THEN r
    ELSE IF a.cipher_list \notin {"None", ""}
    THEN IF CipherListOk(a.cipher_list)
         THEN [r EXCEPT !.context.cipher_list = a.cipher_list,
                        !.calls = Append(@, "set_cipher_list")]
         ELSE Raise(ExcCipher, Append(r.calls, "set_cipher_list"))
    ELSE r

\* lines 163-164
SetInfoCallback(r, logger) ==
    IF r.exc # NoExc THEN r
    ELSE IF logger # "None"
    THEN [r EXCEPT !.context.info_callback = logger,
                   !.calls = Append(@, "set_info_callback")]
    ELSE r

\* SetAlpn with the third branch testing the custom selector alone: given both
\* selectors it installs the custom one instead of raising
SetAlpnMutantCustomWins(r, a) ==
    IF r.exc # NoExc THEN r
    ELSE IF a.alpn_protos # None
    THEN [r EXCEPT !.context.alpn_protos = a.alpn_protos,
                   !.calls = Append(@, "set_alpn_protos")]
    ELSE IF a.alpn_select # None /\ a.alpn_select_callback = "None"
    THEN [r EXCEPT !.context.alpn_select_callback =
                        [kind |-> "preferred", alpn_select |-> a.alpn_select],
                   !.calls = Append(@, "set_alpn_select_callback")]
    ELSE IF a.alpn_select_callback # "None"
    THEN IF ~Callable(a.alpn_select_callback)
         THEN Raise(ExcAlpnFunction, r.calls)
         ELSE [r EXCEPT !.context.alpn_select_callback =
                             [kind |-> "custom", alpn_select |-> None],
                        !.calls = Append(@, "set_alpn_select_callback")]
    ELSE r

\* lines 166-184: the advertise-list is looked at first, then the two selectors
SetAlpn(r, a) ==
    IF r.exc # NoExc THEN r
    ELSE IF a.alpn_protos # None
    THEN [r EXCEPT !.context.alpn_protos = a.alpn_protos,
                   !.calls = Append(@, "set_alpn_protos")]
    ELSE IF a.alpn_select # None /\ a.alpn_select_callback = "None"
    THEN [r EXCEPT !.context.alpn_select_callback =
                        [kind |-> "preferred", alpn_select |-> a.alpn_select],
                   !.calls = Append(@, "set_alpn_select_callback")]
    ELSE IF a.alpn_select_callback # "None" /\ a.alpn_select = None
    THEN IF ~Callable(a.alpn_select_callback)
         THEN Raise(ExcAlpnFunction, r.calls)
         ELSE [r EXCEPT !.context.alpn_select_callback =
                             [kind |-> "custom", alpn_select |-> None],
                        !.calls = Append(@, "set_alpn_select_callback")]
    ELSE IF a.alpn_select_callback # "None" /\ a.alpn_select # None
    THEN Raise(ExcAlpnBoth, r.calls)
    ELSE r

\* _create_ssl_context(**a): [exc, context, calls], calls being the engine calls
\* made, in order
CreateSslContext(a, logger) ==
    IF ~MethodSupported(a.method)
    THEN Raise(ExcMethod, <<>>)
    ELSE LET r0 == [exc |-> NoExc, context |-> NewContext(a.method),
                    calls |-> <<"Context">>]
             r1 == SetVerify(SetOptions(r0, a), a)
         IN  SetAlpn(SetInfoCallback(SetCipherList(SetMode(r1), a), logger), a)

\* ------------------------------------------------- create_client_context

NoError == [kind |-> "none"]

\* "{}".format(sni) and repr(address), as the texts an error message can carry
FormatStr(v) == [fmt |-> "str", v |-> v]
Repr(v) == [fmt |-> "repr", v |-> v]

\* Python truthiness of an optional str
Truthy(s) == s # None /\ s # <<"">>

Sentinel == <<"no-hostname">>

\* lines 216-232, the body of the try: [raised, hostname], hostname being the
\* name handed to match_hostname (None when an exception comes first)
HostnameCheck(sni, x509) ==
    IF \E i \in DOMAIN x509.altnames : DecodeAsciiRaises(x509.altnames[i])
    THEN [raised |-> "ValueError", hostname |-> None]
    ELSE IF Truthy(x509.cn) /\ DecodeAsciiRaises(x509.cn)
    THEN [raised |-> "ValueError", hostname |-> None]
    ELSE LET crt == [subjectAltName |-> x509.altnames,
                     subject |-> IF Truthy(x509.cn) THEN <<x509.cn>> ELSE <<>>]
             enc == IF Truthy(sni) THEN IdnaEncode(sni)
                    ELSE [raised |-> FALSE, value |-> Sentinel]
         IN  IF enc.raised
             THEN [raised |-> "ValueError", hostname |-> None]
             ELSE [raised |-> IF MatchHostname(crt, enc.value) = "ok"
                              THEN "no" ELSE "CertificateError",
                   hostname |-> enc.value]

\* VerifyCallback with a positive result resetting conn.cert_error
VerifyCallbackMutantClears(cb, c, x509, errno, depth, is_cert_verified) ==
    IF is_cert_verified /\ depth = 0
    THEN LET h == HostnameCheck(cb.sni, x509)
         IN  IF h.raised # "no"
             THEN [ret |-> FALSE,
                   cert_error |-> [kind |-> "hostname",
                                   target |-> IF Truthy(cb.sni) THEN FormatStr(cb.sni)
                                              ELSE Repr(cb.address),
                                   reason |-> h.raised],
                   hostname |-> h.hostname]
             ELSE [ret |-> TRUE, cert_error |-> NoError, hostname |-> h.hostname]
    ELSE IF is_cert_verified
    THEN [ret |-> TRUE, cert_error |-> NoError, hostname |-> None]
    ELSE [ret |-> FALSE,
          cert_error |-> [kind |-> "chain", target |-> FormatStr(cb.sni),
                          errno |-> errno, depth |-> depth],
          hostname |-> None]

\* lines 214-254: [ret, cert_error, hostname]; cert_error is the connection's
\* attribute after the call, c being its value before
VerifyCallback(cb, c, x509, errno, depth, is_cert_verified) ==
    IF is_cert_verified /\ depth = 0
    THEN LET h == HostnameCheck(cb.sni, x509)
         IN  IF h.raised # "no"
             THEN [ret |-> FALSE,
                   cert_error |-> [kind |-> "hostname",
                                   target |-> IF Truthy(cb.sni) THEN FormatStr(cb.sni)
                                              ELSE Repr(cb.address),
                                   reason |-> h.raised],
                   hostname |-> h.hostname]
             ELSE [ret |-> TRUE, cert_error |-> c, hostname |-> h.hostname]
    ELSE IF is_cert_verified
    THEN [ret |-> TRUE, cert_error |-> c, hostname |-> None]
    ELSE [ret |-> FALSE,
          cert_error |-> [kind |-> "chain", target |-> FormatStr(cb.sni),
                          errno |-> errno, depth |-> depth],
          hostname |-> None]

\* the engine: use_privatekey_file / use_certificate_file raise SSL.Error
ClientCertLoadable(cert) == cert # "bad.pem"

\* SniMissing comparing the bit field with VERIFY_PEER instead of VERIFY_NONE
SniMissingMutantPeerOnly(sni, verify) == sni = None /\ verify = VERIFY_PEER

\* lines 204-205
SniMissing(sni, verify) == sni = None /\ verify # VERIFY_NONE

\* _create_ssl_context's defaults (lines 96-107) overridden by keyword arguments
SslArgs(verify, verify_callback, kw) ==
    [method |-> kw.method, options |-> "DEFAULT_OPTIONS",
     ca_path |-> "None", ca_pemfile |-> kw.ca_pemfile,
     cipher_list |-> kw.cipher_list, alpn_protos |-> kw.alpn_protos,
     alpn_select |-> kw.alpn_select,
     alpn_select_callback |-> kw.alpn_select_callback,
     verify |-> verify, verify_callback |-> verify_callback]

\* create_client_context(cert, sni, address, verify, **kw): [exc, context, calls]
CreateClientContext(cert, sni, address, verify, kw, logger) ==
    IF SniMissing(sni, verify)
    THEN Raise(ExcNoSni, <<>>)
    ELSE LET cb == [name |-> "verify_callback", sni |-> sni, address |-> address]
             r == CreateSslContext(SslArgs(verify, cb, kw), logger)
         IN  IF r.exc # NoExc THEN r
             ELSE IF cert \notin {"None", ""}
             THEN IF ClientCertLoadable(cert)
                  THEN [r EXCEPT !.context.privatekey = cert,
                                 !.context.certificate = cert,
                                 !.calls = @ \o <<"use_privatekey_file",
                                                  "use_certificate_file">>]
                  ELSE Raise(ExcClientCert, Append(r.calls, "use_privatekey_file"))
             ELSE r

\* ------------------------------------------------- create_server_context

\* AcceptAll handing back the engine's preliminary result
AcceptAllMutantPassThrough(cb, c, x509, errno, err_depth, is_cert_verified) ==
    [ret |-> is_cert_verified, cert_error |-> c, hostname |-> None]

\* lines 301-309: [ret, cert_error, hostname]
AcceptAll(cb, c, x509, errno, err_depth, is_cert_verified) ==
    [ret |-> TRUE, cert_error |-> c, hostname |-> None]

\* lines 311-314
ServerVerifyMode(request_client_cert) ==
    IF request_client_cert THEN VERIFY_PEER ELSE VERIFY_NONE

\* the engine: use_privatekey / use_certificate raise SSL.Error on a mismatch
IdentityOk(cert, key) == key # "mismatched key"

\* create_server_context(cert, key, handle_sni, request_client_cert, chain_file,
\* dhparams, extra_chain_certs, **kw): [exc, context, calls]
CreateServerContext(a, kw, logger) ==
    LET cb == [name |-> "accept_all", sni |-> None, address |-> None]
        r == CreateSslContext(
                 SslArgs(ServerVerifyMode(a.request_client_cert), cb,
                         [kw EXCEPT !.ca_pemfile = a.chain_file]), logger)
    IN  IF r.exc # NoExc THEN r
        ELSE IF ~IdentityOk(a.cert, a.key)
        THEN Raise(ExcIdentity, Append(r.calls, "use_privatekey"))
        ELSE LET r1 == [r EXCEPT !.context.privatekey = a.key,
                                 !.context.certificate = a.cert,
                                 !.calls = @ \o <<"use_privatekey",
                                     IF a.cert = "SSLCert" THEN "use_certificate"
                                     ELSE "use_certificate_chain_file">>]
                 r2 == [r1 EXCEPT !.context.extra_chain = a.extra_chain_certs,
                                  !.calls = @ \o [i \in 1..a.extra_chain_certs |->
                                                     "add_extra_chain_cert"]]
                 r3 == IF a.handle_sni # "None"
                       THEN [r2 EXCEPT !.context.servername_callback = a.handle_sni,
                                       !.calls = Append(@, "set_tlsext_servername_callback")]
                       ELSE r2
             IN  IF a.dhparams # "None"
                 THEN [r3 EXCEPT !.context.tmp_dh = a.dhparams,
                                 !.calls = Append(@, "SSL_CTX_set_tmp_dh")]
                 ELSE r3

\* ------------------------------------------------------ ALPN selection hook

H2 == <<104, 50>>
Http11 == <<104, 116, 116, 112, 47, 49, 46, 49>>
Spdy3 == <<115, 112, 100, 121, 47, 51>>
Protocols == {H2, Http11, Spdy3}

Range(seq) == {seq[i] : i \in DOMAIN seq}

\* bytes(b) of a bytes object: a copy, byte for byte
Bytes(b) == [i \in DOMAIN b |-> b[i] % 256]

\* AlpnSelectCallback without the fallback to the client's first protocol
AlpnSelectCallbackMutantInsist(alpn_select, options) ==
    [raised |-> "no", value |-> Bytes(alpn_select)]

\* lines 171-175, the closure over alpn_select: [raised, value]
AlpnSelectCallback(alpn_select, options) ==
    IF alpn_select \in Range(options)
    THEN [raised |-> "no", value |-> Bytes(alpn_select)]
    ELSE IF options = <<>>
    THEN [raised |-> "IndexError", value |-> None]
    ELSE [raised |-> "no", value |-> options[1]]

\* ------------------------------------------------------------ input spaces

SniValues ==
    {None, <<"">>, <<"example", "com">>, <<"a", "example", "com">>,
     <<"B{U+00DC}CHER", "com">>, <<"a", "", "com">>}
Addresses == {None, <<"10", "0", "0", "1">>}
VerifyModes == {VERIFY_NONE, VERIFY_PEER, VERIFY_PEER + VERIFY_FAIL_IF_NO_PEER_CERT}
ErrCodes == {X509_V_ERR_CERT_HAS_EXPIRED, X509_V_ERR_SELF_SIGNED_CERT_IN_CHAIN}

Cert(altnames, cn) == [altnames |-> altnames, cn |-> cn]

\* leaf certificates a server may present
LeafCerts ==
    {Cert(<<<<"example", "com">>>>, <<"example", "com">>),
     Cert(<<<<"*", "example", "com">>>>, None),
     Cert(<<>>, <<"xn--bcher-kva", "com">>),
     Cert(<<<<"other", "com">>>>, <<"example", "com">>),
     Cert(<<<<"b{U+00FC}cher", "com">>>>, None),
     Cert(<<<<"no-hostname">>>>, None),
     Cert(<<<<"*">>, <<"example", "com">>>>, None),
     Cert(<<>>, None)}

\* an issuing certificate, presented at depth > 0
IssuerCert == Cert(<<>>, <<"example", "CA">>)

\* keyword arguments passed through to _create_ssl_context
DefaultKw ==
    [method |-> "SSLv23_METHOD", ca_pemfile |-> "None", cipher_list |-> "None",
     alpn_protos |-> None, alpn_select |-> None, alpn_select_callback |-> "None"]

\* a client certificate file together with the keyword arguments of the call
ClientSetups ==
    {[cert |-> "None", kw |-> DefaultKw],
     [cert |-> "", kw |-> [DefaultKw EXCEPT !.ca_pemfile = "missing.pem"]],
     [cert |-> "client.pem", kw |-> [DefaultKw EXCEPT !.alpn_protos = <<H2, Http11>>]],
     [cert |-> "bad.pem", kw |-> DefaultKw]}

ServerKws ==
    {DefaultKw, [DefaultKw EXCEPT !.alpn_select = H2],
     [DefaultKw EXCEPT !.cipher_list = "bogus"]}

\* create_server_context's own arguments: every identity, with the optional
\* parts (SNI handler, chain file, DH parameters, an extra chain certificate)
\* all absent or all present
ServerArgs ==
    {[cert |-> c, key |-> k, request_client_cert |-> r,
      handle_sni |-> IF o THEN "handle_sni" ELSE "None",
      chain_file |-> IF o THEN "chain.pem" ELSE "None",
      dhparams |-> IF o THEN "dhparams" ELSE "None",
      extra_chain_certs |-> IF o THEN 1 ELSE 0] :
        c \in {"SSLCert", "chain.pem"}, k \in {"key", "mismatched key"},
        r \in BOOLEAN, o \in BOOLEAN}

DirectArgs ==
    [method : {"SSLv23_METHOD", "SSLv2_METHOD"}, options : {"DEFAULT_OPTIONS"},
     ca_path : {"None"}, ca_pemfile : {"None", "ca.pem", "missing.pem"},
     cipher_list : {"None", "", "HIGH", "bogus"},
     alpn_protos : {None, <<H2, Http11>>},
     alpn_select : {None, H2, Spdy3},
     alpn_select_callback : {"None", "function", "not a function"},
     verify : {NoVerify, VERIFY_NONE, VERIFY_PEER},
     verify_callback : {NoCallback}]

RECURSIVE SeqsUpTo(_, _)
SeqsUpTo(S, n) ==
    IF n = 0 THEN {<<>>}
    ELSE LET shorter == SeqsUpTo(S, n - 1)
         IN  shorter \cup {Append(q, x) : q \in shorter, x \in S}

Offers == SeqsUpTo(Protocols, MaxOffer)

\* ---------------------------------------------------------------- actions
\* A behaviour follows one context: a factory is called once, then the engine
\* uses what it built.

NoCall == [cb |-> "None"]
NoAlpn == [made |-> FALSE]
NoConn == [exists |-> FALSE, cert_error |-> NoError]
IdleHs == [phase |-> "idle", depth |-> 0, leaf |-> IssuerCert]

\* MasterSecretLogger.create_logfun(filename), lines 84-87
CreateLogfun(filename) ==
    IF filename \notin {"None", ""} THEN "MasterSecretLogger" ELSE "None"

Reset ==
    /\ conn' = NoConn
    /\ hs' = IdleHs
    /\ call' = NoCall
    /\ negReturned' = FALSE
    /\ alpn' = NoAlpn

BuildSslContext ==
    /\ built.fn = "none"
    /\ \E a \in DirectArgs :
          LET r == CreateSslContext(a, log_master_secret)
          IN  built' = [fn |-> "_create_ssl_context", args |-> a, exc |-> r.exc,
                        context |-> r.context, calls |-> r.calls]
    /\ Reset
    /\ UNCHANGED <<log_master_secret, logVars>>

BuildClientContext ==
    /\ built.fn = "none"
    /\ \E setup \in ClientSetups, sni \in SniValues,
          address \in Addresses, verify \in VerifyModes :
          LET r == CreateClientContext(setup.cert, sni, address, verify, setup.kw,
                                       log_master_secret)
          IN  built' = [fn |-> "create_client_context",
                        args |-> [cert |-> setup.cert, sni |-> sni,
                                  address |-> address, verify |-> verify,
                                  kw |-> setup.kw],
                        exc |-> r.exc, context |-> r.context, calls |-> r.calls]
    /\ Reset
    /\ UNCHANGED <<log_master_secret, logVars>>

BuildServerContext ==
    /\ built.fn = "none"
    /\ \E a \in ServerArgs, kw \in ServerKws :
          LET r == CreateServerContext(a, kw, log_master_secret)
          IN  built' = [fn |-> "create_server_context",
                        args |-> [a |-> a, kw |-> kw],
                        exc |-> r.exc, context |-> r.context, calls |-> r.calls]
    /\ Reset
    /\ UNCHANGED <<log_master_secret, logVars>>

\* the engine starts verifying a peer chain of n certificates on a new connection
StartHandshake ==
    /\ built.exc = NoExc
    /\ built.context.made
    /\ built.context.verify_callback.name # "None"
    /\ hs.phase # "verify"
    /\ \E n \in 1..MaxChain, leaf \in LeafCerts :
          hs' = [phase |-> "verify", depth |-> n - 1, leaf |-> leaf]
    /\ conn' = [exists |-> TRUE, cert_error |-> NoError]
    /\ call' = NoCall
    /\ negReturned' = FALSE
    /\ UNCHANGED <<log_master_secret, built, alpn, logVars>>

\* the callback set_verify installed, whichever factory built the context
InstalledVerifyCallback(cb, c, x509, errno, depth, ok) ==
    IF cb.name = "accept_all"
    THEN AcceptAll(cb, c, x509, errno, depth, ok)
    ELSE VerifyCallback(cb, c, x509, errno, depth, ok)

\* the engine invokes the verify callback for the certificate at hs.depth, with its
\* preliminary result, and moves one certificate toward the leaf
VerifyCall ==
    /\ hs.phase = "verify"
    /\ \E ok \in BOOLEAN :
       \E errno \in IF ok THEN {X509_V_OK} ELSE ErrCodes :
          LET x509 == IF hs.depth = 0 THEN hs.leaf ELSE IssuerCert
              cb == built.context.verify_callback
              r == InstalledVerifyCallback(cb, conn.cert_error, x509, errno,
                                           hs.depth, ok)
          IN  /\ conn' = [conn EXCEPT !.cert_error = r.cert_error]
              /\ call' = [cb |-> cb.name, x509 |-> x509, errno |-> errno,
                          depth |-> hs.depth, is_cert_verified |-> ok,
                          ret |-> r.ret, hostname |-> r.hostname,
                          before |-> conn.cert_error]
              /\ negReturned' = (negReturned \/ ~r.ret)
    /\ hs' = IF hs.depth = 0 THEN [hs EXCEPT !.phase = "done"]
             ELSE [hs EXCEPT !.depth = @ - 1]
    /\ UNCHANGED <<log_master_secret, built, alpn, logVars>>

\* the engine invokes the ALPN selection hook with a client's offer; a custom
\* selector is the caller's code and may answer with any protocol
AlpnSelect ==
    /\ built.exc = NoExc
    /\ built.context.made
    /\ built.context.alpn_select_callback.kind # "None"
    /\ \E options \in Offers :
          LET hook == built.context.alpn_select_callback
          IN  IF hook.kind = "preferred"
              THEN LET r == AlpnSelectCallback(hook.alpn_select, options)
                   IN  alpn' = [made |-> TRUE, options |-> options,
                                raised |-> r.raised, value |-> r.value]
              ELSE \E p \in Protocols :
                      alpn' = [made |-> TRUE, options |-> options,
                               raised |-> "no", value |-> p]
    /\ UNCHANGED <<log_master_secret, built, conn, hs, call, negReturned, logVars>>

\* ------------------------------------------------------ MasterSecretLogger

Conns == 1..NumConns
\* the thread that calls close() at shutdown
Closer == 0
Threads == Conns \cup {Closer}

HexDigits == <<"0", "1", "2", "3", "4", "5", "6", "7",
               "8", "9", "a", "b", "c", "d", "e", "f">>

\* binascii.hexlify: two lower-case hex digits per byte
RECURSIVE Hexlify(_)
Hexlify(b) ==
    IF b = <<>> THEN <<>>
    ELSE <<HexDigits[(Head(b) \div 16) + 1], HexDigits[(Head(b) % 16) + 1]>>
         \o Hexlify(Tail(b))

\* connection.client_random() and connection.master_key() of connection t
ClientRandom(t) == <<t, 255 - t>>
MasterKey(t) == <<16 * t + 10>>

BlankLine == <<"\r\n">>

\* b"CLIENT_RANDOM %s %s\r\n" % (client_random, masterkey), lines 73-75
Record(t) ==
    <<"CLIENT_RANDOM", " ">> \o Hexlify(ClientRandom(t)) \o <<" ">>
        \o Hexlify(MasterKey(t)) \o <<"\r\n">>

\* line 65
IsHandshakeDone(e) == e.where = SSL_CB_HANDSHAKE_DONE /\ e.ret = 1

\* LockFree without mutual exclusion
LockFreeMutantNoExclusion == TRUE

\* threading.Lock: acquire blocks while another thread holds it
LockFree == lock = {}

\* line 67 and line 80: the truth value of self.f.  A file object is true
\* whether open or closed; only None is false.
FIsSet == f # 0

\* __call__(connection, where, ret) is entered with an event, lines 64-65
Call(t) ==
    /\ pc[t] = "idle"
    /\ \E where \in {SSL_CB_HANDSHAKE_START, SSL_CB_HANDSHAKE_DONE}, ret \in {0, 1} :
          /\ ev' = [ev EXCEPT ![t] = [where |-> where, ret |-> ret]]
          /\ pc' = [pc EXCEPT ![t] =
                       IF IsHandshakeDone([where |-> where, ret |-> ret])
                       THEN "lock" ELSE "done"]
    /\ UNCHANGED <<log_master_secret, tlsVars, f, lock, fs, closes, badWrites>>

\* with self.lock, line 66
Acquire(t) ==
    /\ pc[t] = "lock"
    /\ LockFree
    /\ lock' = lock \cup {t}
    /\ pc' = [pc EXCEPT ![t] = "test"]
    /\ UNCHANGED <<log_master_secret, tlsVars, f, ev, fs, closes, badWrites>>

\* if not self.f, line 67
TestOpen(t) ==
    /\ pc[t] = "test"
    /\ pc' = [pc EXCEPT ![t] = IF FIsSet THEN "record" ELSE "open"]
    /\ UNCHANGED <<log_master_secret, tlsVars, f, lock, ev, fs, closes, badWrites>>

\* lines 68-72: make the directory, open for append, write the blank line
Open(t) ==
    /\ pc[t] = "open"
    /\ fs' = [fs EXCEPT !.dir = TRUE, !.opens = @ + 1,
                        !.objs = Append(@, [closed |-> FALSE, buf |-> BlankLine])]
    /\ f' = Len(fs.objs) + 1
    /\ pc' = [pc EXCEPT ![t] = "record"]
    /\ UNCHANGED <<log_master_secret, tlsVars, lock, ev, closes, badWrites>>

\* lines 73-75: self.f.write(record); a closed file object raises ValueError,
\* which leaves the with block and so releases the lock
WriteRecord(t) ==
    /\ pc[t] = "record"
    /\ IF fs.objs[f].closed
       THEN /\ badWrites' = badWrites + 1
            /\ pc' = [pc EXCEPT ![t] = "raised"]
            /\ lock' = lock \ {t}
            /\ fs' = fs
       ELSE /\ fs' = [fs EXCEPT !.objs[f].buf = @ \o Record(t)]
            /\ pc' = [pc EXCEPT ![t] = "flush"]
            /\ UNCHANGED <<lock, badWrites>>
    /\ UNCHANGED <<log_master_secret, tlsVars, f, ev, closes>>

\* line 76: self.f.flush()
Flush(t) ==
    /\ pc[t] = "flush"
    /\ IF fs.objs[f].closed
       THEN /\ pc' = [pc EXCEPT ![t] = "raised"]
            /\ lock' = lock \ {t}
            /\ fs' = fs
       ELSE /\ fs' = [fs EXCEPT !.disk = @ \o fs.objs[f].buf,
                                !.objs[f].buf = <<>>]
            /\ pc' = [pc EXCEPT ![t] = "unlock"]
            /\ lock' = lock
    /\ UNCHANGED <<log_master_secret, tlsVars, f, ev, closes, badWrites>>

\* the end of the with block
Release(t) ==
    /\ pc[t] = "unlock"
    /\ lock' = lock \ {t}
    /\ pc' = [pc EXCEPT ![t] = "done"]
    /\ UNCHANGED <<log_master_secret, tlsVars, f, ev, fs, closes, badWrites>>

\* close() is called, line 78
CloseCall ==
    /\ pc[Closer] = "idle"
    /\ closes < MaxCloses
    /\ closes' = closes + 1
    /\ pc' = [pc EXCEPT ![Closer] = "lock"]
    /\ UNCHANGED <<log_master_secret, tlsVars, f, lock, ev, fs, badWrites>>

\* with self.lock, line 79
CloseAcquire ==
    /\ pc[Closer] = "lock"
    /\ LockFree
    /\ lock' = lock \cup {Closer}
    /\ pc' = [pc EXCEPT ![Closer] = "test"]
    /\ UNCHANGED <<log_master_secret, tlsVars, f, ev, fs, closes, badWrites>>

\* lines 80-81: if self.f: self.f.close().  Closing flushes what is buffered;
\* closing a closed file object does nothing.  self.f keeps the object.
CloseBody ==
    /\ pc[Closer] = "test"
    /\ IF FIsSet
       THEN fs' = [fs EXCEPT !.disk = @ \o fs.objs[f].buf,
                             !.objs[f] = [closed |-> TRUE, buf |-> <<>>]]
       ELSE fs' = fs
    /\ lock' = lock \ {Closer}
    /\ pc' = [pc EXCEPT ![Closer] = "idle"]
    /\ UNCHANGED <<log_master_secret, tlsVars, f, ev, closes, badWrites>>

\* ---------------------------------------------------------- specifications

TlsIdle ==
    /\ built = [fn |-> "none", args |-> [none |-> TRUE], exc |-> NoExc,
                context |-> NoContext, calls |-> <<>>]
    /\ conn = NoConn
    /\ hs = IdleHs
    /\ call = NoCall
    /\ negReturned = FALSE
    /\ alpn = NoAlpn

\* __init__, lines 56-59; the log file's directory may or may not exist yet
LoggerInit ==
    /\ f = 0
    /\ lock = {}
    /\ pc = [t \in Threads |-> "idle"]
    /\ ev = [t \in Conns |-> [where |-> 0, ret |-> 0]]
    /\ fs \in [dir : BOOLEAN, opens : {0}, objs : {<<>>}, disk : {<<>>}]
    /\ closes = 0
    /\ badWrites = 0

\* lines 90-92: the environment names a key-log file, or does not
EnvInit ==
    \E filename \in {"None", "", "/tmp/keys/sslkeylog"} :
        log_master_secret = CreateLogfun(filename)

Init ==
    /\ EnvInit
    /\ TlsIdle
    /\ LoggerInit
    /\ fs.dir

\* the factories and the certificate verification of a handshake
Next ==
    \/ BuildClientContext
    \/ BuildServerContext
    \/ StartHandshake
    \/ VerifyCall

Spec == Init /\ [][Next]_vars

\* _create_ssl_context called directly, and its ALPN hook
NextAlpn ==
    \/ BuildSslContext
    \/ AlpnSelect

SpecAlpn == Init /\ [][NextAlpn]_vars

InitLog ==
    /\ log_master_secret = CreateLogfun("/tmp/keys/sslkeylog")
    /\ TlsIdle
    /\ LoggerInit

\* one MasterSecretLogger, its events arriving from NumConns connections and
\* close() from the shutdown path
NextLog ==
    \/ \E t \in Conns :
          \/ Call(t)
          \/ Acquire(t)
          \/ TestOpen(t)
          \/ Open(t)
          \/ WriteRecord(t)
          \/ Flush(t)
          \/ Release(t)
    \/ CloseCall
    \/ CloseAcquire
    \/ CloseBody

SpecLog == InitLog /\ [][NextLog]_vars

\* ------------------------------------------------------------------ claims

IsClient == built.fn = "create_client_context"
IsServer == built.fn = "create_server_context"
IsDirect == built.fn = "_create_ssl_context"
ClientCalled == IsClient /\ call.cb = "verify_callback"

\* whether hostname matches the certificate's names, by the rules of
\* match_hostname, the certificate's names being ASCII
LeafMatches(x509, hostname) ==
    /\ \A i \in DOMAIN x509.altnames : ~DecodeAsciiRaises(x509.altnames[i])
    /\ Truthy(x509.cn) => ~DecodeAsciiRaises(x509.cn)
    /\ MatchHostname([subjectAltName |-> x509.altnames,
                      subject |-> IF Truthy(x509.cn) THEN <<x509.cn>> ELSE <<>>],
                     hostname) = "ok"

\* the hostname a client context's leaf check is to be made against: the IDNA
\* encoding of the configured SNI; the sentinel placeholder stands in only where
\* no name is configured, which construction allows under VERIFY_NONE alone
LeafMatchesSni(x509, sni, verify) ==
    IF ~Truthy(sni) /\ verify = VERIFY_NONE THEN LeafMatches(x509, Sentinel)
    ELSE /\ ~IdnaEncode(sni).raised
         /\ LeafMatches(x509, IdnaEncode(sni).value)

\* C1: the client verify callback returns the preliminary result unchanged at
\* every depth above 0; at depth 0 it returns a positive result exactly when the
\* preliminary result is positive and the IDNA-encoded hostname matches the leaf
\* certificate; it never turns a negative preliminary result into a positive one.
C1_CallbackResult ==
    ClientCalled =>
        /\ call.depth > 0 => call.ret = call.is_cert_verified
        /\ call.depth = 0 =>
              (call.ret <=> (call.is_cert_verified
                             /\ LeafMatchesSni(call.x509, built.args.sni, built.args.verify)))
        /\ ~call.is_cert_verified => ~call.ret

\* C2: on one connection, an error is attached after a sequence of client verify
\* calls exactly when some call returned a negative result; a negative return
\* leaves an error attached, no later positive call clears it, and a call on a
\* preliminarily valid certificate (the leaf matching the SNI) attaches nothing.
C2_ErrorIffNegative ==
    (IsClient /\ conn.exists) =>
        /\ (conn.cert_error # NoError) <=> negReturned
        /\ (call.cb = "verify_callback" /\ ~call.ret) => conn.cert_error # NoError
        /\ (call.cb = "verify_callback" /\ call.is_cert_verified
            /\ (call.depth > 0
                \/ (Truthy(built.args.sni)
                    /\ LeafMatchesSni(call.x509, built.args.sni, built.args.verify))))
              => (call.ret /\ conn.cert_error = call.before)

\* a negative return, then a positive one: the error is still attached
C2_Witness ==
    /\ IsClient
    /\ call.cb = "verify_callback"
    /\ call.ret
    /\ call.depth = 0
    /\ call.before # NoError
    /\ conn.cert_error = call.before

\* C3: create_client_context with a verify mode other than VERIFY_NONE and no
\* SNI fails with the SNI-required error before any engine call is made (no
\* context, callback, trust store or client certificate); with VERIFY_NONE and no
\* SNI it does not fail for this reason.
C3_SniRequired ==
    IsClient =>
        /\ (built.args.sni = None /\ built.args.verify # VERIFY_NONE)
              => (/\ built.exc = ExcNoSni
                  /\ built.calls = <<>>
                  /\ built.context = NoContext)
        /\ (built.args.sni = None /\ built.args.verify = VERIFY_NONE)
              => built.exc # ExcNoSni

C3_Witness ==
    /\ IsClient
    /\ built.args.sni = None
    /\ built.args.verify = VERIFY_PEER + VERIFY_FAIL_IF_NO_PEER_CERT
    /\ built.exc = ExcNoSni

\* the arguments other than the ALPN ones are valid: the engine accepts the
\* method, the trust store (when one is loaded) and the cipher list
OtherwiseValid(a) ==
    /\ MethodSupported(a.method)
    /\ a.verify # NoVerify => TrustLoadable(a.ca_pemfile, a.ca_path)
    /\ a.cipher_list \notin {"None", ""} => CipherListOk(a.cipher_list)

BothSelectors(a) == a.alpn_select # None /\ a.alpn_select_callback # "None"

\* C4, as stated: with both alpn_select and alpn_select_callback given,
\* _create_ssl_context fails with the ALPN configuration error and returns no
\* context, whatever the other (valid) arguments are, an advertise-list included.
C4_BothAlwaysFails ==
    (IsDirect /\ BothSelectors(built.args) /\ OtherwiseValid(built.args)) =>
        (built.exc = ExcAlpnBoth /\ built.context = NoContext)

\* C4, amended: with both selectors given and no advertise-list,
\* _create_ssl_context fails with the ALPN configuration error and returns no
\* context; with an advertise-list also given it installs the list, installs no
\* selection hook and returns the context without an error.
C4_BothFailsWithoutAdvertiseList ==
    (IsDirect /\ BothSelectors(built.args) /\ OtherwiseValid(built.args)) =>
        IF built.args.alpn_protos = None
        THEN built.exc = ExcAlpnBoth /\ built.context = NoContext
        ELSE /\ built.exc = NoExc
             /\ built.context.alpn_protos = built.args.alpn_protos
             /\ built.context.alpn_select_callback = NoHook

C4_Witness ==
    /\ IsDirect
    /\ BothSelectors(built.args)
    /\ built.args.alpn_protos = None
    /\ built.args.verify = VERIFY_PEER
    /\ built.args.cipher_list = "HIGH"
    /\ built.exc = ExcAlpnBoth

\* C5: the verify callback create_server_context installs returns a positive
\* result for every input and leaves the connection without an error, with
\* request_client_cert true (VERIFY_PEER) and false (VERIFY_NONE) alike.
C5_AcceptAll ==
    IsServer =>
        /\ built.exc = NoExc =>
              /\ built.context.verify_callback.name = "accept_all"
              /\ built.context.verify =
                    (IF built.args.a.request_client_cert
                     THEN VERIFY_PEER ELSE VERIFY_NONE)
        /\ call # NoCall => (call.cb = "accept_all" /\ call.ret)
        /\ conn.cert_error = NoError
        /\ ~negReturned

\* a leaf the engine rejected, at depth 0, under request_client_cert
C5_Witness ==
    /\ IsServer
    /\ built.args.a.request_client_cert
    /\ call.cb = "accept_all"
    /\ call.depth = 0
    /\ ~call.is_cert_verified
    /\ call.ret
    /\ hs.phase = "done"

\* the connections whose successful handshake event has been written and flushed
Flushed == {t \in Conns : IsHandshakeDone(ev[t]) /\ pc[t] \in {"unlock", "done"}}
\* those past the opening of the file
PastOpen ==
    {t \in Conns : IsHandshakeDone(ev[t])
                   /\ pc[t] \in {"record", "flush", "unlock", "done", "raised"}}

Orders(W) ==
    {o \in [1..Cardinality(W) -> W] : \A i, j \in DOMAIN o : o[i] = o[j] => i = j}

RECURSIVE Records(_)
Records(order) ==
    IF order = <<>> THEN <<>> ELSE Record(Head(order)) \o Records(Tail(order))

\* C6: with no close() called, whatever the interleaving of the connections'
\* events: the file is opened at most once, and once as soon as a successful
\* handshake event is past the opening; what is on disk is the blank line followed
\* by one whole record per flushed successful event, in some order, nothing else;
\* an event that is not a successful handshake completion takes no lock, opens
\* nothing and writes nothing.
C6_OneOpenWholeRecords ==
    closes = 0 =>
        /\ fs.opens = (IF PastOpen = {} THEN 0 ELSE 1)
        /\ IF Flushed = {} THEN fs.disk = <<>>
           ELSE \E o \in Orders(Flushed) : fs.disk = BlankLine \o Records(o)
        /\ \A t \in Conns :
              (pc[t] # "idle" /\ ~IsHandshakeDone(ev[t])) => pc[t] = "done"
        /\ \A t \in Conns : pc[t] # "raised"
        /\ badWrites = 0

\* every connection completed a handshake and its record is on disk
C6_Witness ==
    /\ closes = 0
    /\ Flushed = Conns
    /\ \A t \in Conns : pc[t] = "done"
    /\ fs.opens = 1
    /\ Len(fs.disk) = Len(BlankLine) + NumConns * Len(Record(1))

\* C7: an error the client verify callback attaches names the configured SNI
\* when one is configured and the peer address when none is, for a hostname
\* mismatch and for a negative preliminary result alike.  (An empty SNI is
\* left free here: either target is accepted for it.)
C7_ErrorTarget ==
    (IsClient /\ conn.cert_error # NoError) =>
        /\ Truthy(built.args.sni) =>
              conn.cert_error.target = FormatStr(built.args.sni)
        /\ built.args.sni = None =>
              conn.cert_error.target.v = built.args.address

\* C8: a context built with alpn_select = P, no advertise-list and no custom
\* selector answers a non-empty offer with P when the offer holds P, and with the
\* offer's first protocol otherwise, so always with a protocol of the offer; a
\* context built with an advertise-list carries the list and no selection hook.
C8_PreferredSelection ==
    (IsDirect /\ built.exc = NoExc) =>
        /\ built.args.alpn_protos # None =>
              /\ built.context.alpn_protos = built.args.alpn_protos
              /\ built.context.alpn_select_callback = NoHook
              /\ alpn = NoAlpn
        /\ (/\ built.args.alpn_protos = None
            /\ built.args.alpn_select # None
            /\ built.args.alpn_select_callback = "None")
              => /\ built.context.alpn_select_callback =
                       [kind |-> "preferred", alpn_select |-> built.args.alpn_select]
                 /\ (alpn.made /\ alpn.options # <<>>) =>
                       /\ alpn.raised = "no"
                       /\ alpn.value \in Range(alpn.options)
                       /\ alpn.value =
                             (IF built.args.alpn_select \in Range(alpn.options)
                              THEN built.args.alpn_select ELSE alpn.options[1])

\* an offer without the preferred protocol: the client's first protocol is chosen
C8_Witness ==
    /\ IsDirect
    /\ built.args.alpn_select = H2
    /\ alpn.made
    /\ alpn.options = <<Spdy3, Http11>>
    /\ alpn.value = Spdy3

\* C9: in a client context built with a verify mode that requires peer
\* verification, every depth-0 hostname check is made against the IDNA encoding
\* of the configured SNI, never against the sentinel "no-hostname"; this for
\* every SNI the construction accepts, the empty string included.
C9_HostnameIsSni ==
    (/\ ClientCalled
     /\ built.args.verify # VERIFY_NONE
     /\ call.depth = 0
     /\ call.hostname # None)
        => /\ call.hostname = IdnaEncode(built.args.sni).value
           /\ call.hostname # Sentinel

\* C10: a record write is never attempted on a closed file object, whatever the
\* interleaving of handshake events and close() calls: no write fails on a closed
\* file and no call of the recorder ends in an exception.
C10_NoWriteOnClosed ==
    /\ badWrites = 0
    /\ \A t \in Conns : pc[t] # "raised"

====
